---- MODULE Spec2Model ----
(***************************************************************************)
(* Model of the comet brightening-curve repository:                        *)
(*   total_heliocentric_mag.py   the magnitude model and its demo main()   *)
(*   plot_brightening_curves.py  the plotting client                       *)
(*                                                                         *)
(* Numbers are fixed point.                                                *)
(*   distance              1/1100 au   (3.16 au = 3476, the linspace       *)
(*                                      grids 1..10, 3.16..1, 10..3.16 of  *)
(*                                      100 samples are exact integers)    *)
(*   log10(distance)       1/10000                                         *)
(*   slopes k, table m1    1/4000 mag  (every table entry is exact)        *)
(*   returned magnitudes   1/40000000 mag (= slope unit * log unit)        *)
(* Strings are TLA+ strings; float() reads them character by character.    *)
(* Distances are positive and between 1 and 10 au, the range the programs  *)
(* themselves use; log10 of a non-positive distance is not modelled.       *)
(***************************************************************************)
EXTENDS Integers, Sequences, FiniteSets, TLC

VARIABLES
    argv,    \* sys.argv of the running process
    pc,      \* "start", "called", "done" or "raised" (uncaught exception)
    calls,   \* the calls of total_heliocentric_mag made by the last operation
    stdout,  \* what main() of total_heliocentric_mag.py has printed
    fig      \* the matplotlib figure built by plot_heliocentric_lightcurves

vars == <<argv, pc, calls, stdout, fig>>

\* Longest distance list a client passes in one call.
MaxLen == 2

(***************************************************************************)
(* Python and numpy values                                                 *)
(***************************************************************************)
\* A Python float.
PyFloat(d) == [type |-> "float", shape |-> <<>>, data |-> <<d>>]
\* A Python list of floats.
PyList(s) == [type |-> "list", shape |-> <<Len(s)>>, data |-> s]
\* A numpy array: shape () for a scalar, (n,) for a sequence.
NdArray(shape, data) == [type |-> "ndarray", shape |-> shape, data |-> data]
\* No value (an exception was raised instead).
NoValue == [type |-> "none", shape |-> <<>>, data |-> <<>>]

Return(v) == [kind |-> "return", value |-> v, exc |-> "", msg |-> ""]
Raise(exc, msg) == [kind |-> "raise", value |-> NoValue, exc |-> exc, msg |-> msg]

\* np.asarray: a float becomes a 0-d array, a list a 1-d array of its length.
asarray(x) == NdArray(x.shape, x.data)

(***************************************************************************)
(* float(str)                                                              *)
(***************************************************************************)
DigitVal ==
    ("0" :> 0) @@ ("1" :> 1) @@ ("2" :> 2) @@ ("3" :> 3) @@ ("4" :> 4) @@
    ("5" :> 5) @@ ("6" :> 6) @@ ("7" :> 7) @@ ("8" :> 8) @@ ("9" :> 9)

Chars(s) == [i \in 1..Len(s) |-> SubSeq(s, i, i)]

RECURSIVE DigitsValue(_)
DigitsValue(cs) ==
    IF cs = <<>> THEN 0
    ELSE 10 * DigitsValue(SubSeq(cs, 1, Len(cs) - 1)) + DigitVal[cs[Len(cs)]]

RECURSIVE Pow10Int(_)
Pow10Int(n) == IF n = 0 THEN 1 ELSE 10 * Pow10Int(n - 1)

\* float(s) for plain decimal literals (digits with at most one "."); any
\* other text raises ValueError.  The value is in distance units.  The other
\* forms float() reads (sign, exponent, inf, nan, surrounding blanks) are not
\* among the command lines of Argvs.
Float(s) ==
    LET cs   == Chars(s)
        dots == {i \in 1..Len(cs) : cs[i] = "."}
        wellFormed ==
            /\ \A i \in 1..Len(cs) : cs[i] = "." \/ cs[i] \in DOMAIN DigitVal
            /\ Cardinality(dots) <= 1
            /\ \E i \in 1..Len(cs) : cs[i] \in DOMAIN DigitVal
    IN  IF ~wellFormed
        THEN Raise("ValueError", "could not convert string to float: " \o s)
        ELSE LET dot  == IF dots = {} THEN Len(cs) + 1 ELSE CHOOSE i \in dots : TRUE
                 ip   == SubSeq(cs, 1, dot - 1)
                 fp   == SubSeq(cs, dot + 1, Len(cs))
             IN  Return(PyFloat(DigitsValue(ip) * 1100
                                + (DigitsValue(fp) * 1100) \div Pow10Int(Len(fp))))

(***************************************************************************)
(* np.log10 and 10**x                                                      *)
(***************************************************************************)
\* log10(d / 1100) * 10000, rounded, at the distances the programs use.
Log10Table ==
    (1100 :> 0) @@ (1124 :> 94) @@ (1148 :> 185) @@ (1172 :> 275) @@ (1196 :> 363) @@
    (1200 :> 378) @@ (1220 :> 450) @@ (1244 :> 534) @@ (1268 :> 617) @@ (1292 :> 699) @@
    (1300 :> 726) @@ (1316 :> 779) @@ (1340 :> 857) @@ (1364 :> 934) @@ (1388 :> 1010) @@
    (1400 :> 1047) @@ (1412 :> 1084) @@ (1436 :> 1158) @@ (1460 :> 1230) @@ (1484 :> 1300) @@
    (1500 :> 1347) @@ (1508 :> 1370) @@ (1532 :> 1439) @@ (1556 :> 1506) @@ (1580 :> 1573) @@
    (1600 :> 1627) @@ (1604 :> 1638) @@ (1628 :> 1703) @@ (1652 :> 1766) @@ (1676 :> 1829) @@
    (1700 :> 1891) @@ (1724 :> 1951) @@ (1748 :> 2011) @@ (1772 :> 2071) @@ (1796 :> 2129) @@
    (1800 :> 2139) @@ (1820 :> 2187) @@ (1844 :> 2244) @@ (1868 :> 2300) @@ (1892 :> 2355) @@
    (1900 :> 2374) @@ (1916 :> 2410) @@ (1940 :> 2464) @@ (1955 :> 2498) @@ (1964 :> 2517) @@
    (1988 :> 2570) @@ (2000 :> 2596) @@ (2012 :> 2622) @@ (2036 :> 2674) @@ (2060 :> 2725) @@
    (2084 :> 2775) @@ (2100 :> 2808) @@ (2108 :> 2825) @@ (2132 :> 2874) @@ (2156 :> 2923) @@
    (2180 :> 2971) @@ (2200 :> 3010) @@ (2204 :> 3018) @@ (2228 :> 3065) @@ (2252 :> 3112) @@
    (2276 :> 3158) @@ (2300 :> 3203) @@ (2324 :> 3248) @@ (2348 :> 3293) @@ (2372 :> 3337) @@
    (2396 :> 3381) @@ (2400 :> 3388) @@ (2420 :> 3424) @@ (2444 :> 3467) @@ (2468 :> 3510) @@
    (2492 :> 3552) @@ (2500 :> 3565) @@ (2516 :> 3593) @@ (2530 :> 3617) @@ (2540 :> 3634) @@
    (2564 :> 3675) @@ (2588 :> 3716) @@ (2600 :> 3736) @@ (2612 :> 3756) @@ (2636 :> 3796) @@
    (2660 :> 3835) @@ (2684 :> 3874) @@ (2700 :> 3900) @@ (2708 :> 3913) @@ (2732 :> 3951) @@
    (2756 :> 3989) @@ (2780 :> 4027) @@ (2800 :> 4058) @@ (2804 :> 4064) @@ (2828 :> 4101) @@
    (2852 :> 4138) @@ (2876 :> 4174) @@ (2900 :> 4210) @@ (2924 :> 4246) @@ (2948 :> 4281) @@
    (2972 :> 4317) @@ (2996 :> 4351) @@ (3000 :> 4357) @@ (3020 :> 4386) @@ (3044 :> 4421) @@
    (3068 :> 4455) @@ (3092 :> 4488) @@ (3100 :> 4500) @@ (3116 :> 4522) @@ (3140 :> 4555) @@
    (3164 :> 4588) @@ (3188 :> 4621) @@ (3200 :> 4638) @@ (3212 :> 4654) @@ (3236 :> 4686) @@
    (3260 :> 4718) @@ (3284 :> 4750) @@ (3300 :> 4771) @@ (3308 :> 4782) @@ (3332 :> 4813) @@
    (3356 :> 4844) @@ (3380 :> 4875) @@ (3400 :> 4901) @@ (3404 :> 4906) @@ (3428 :> 4936) @@
    (3452 :> 4967) @@ (3465 :> 4983) @@ (3476 :> 4997) @@ (3479 :> 5001) @@ (3487 :> 5011) @@
    (3500 :> 5027) @@ (3552 :> 5091) @@ (3600 :> 5149) @@ (3628 :> 5183) @@ (3700 :> 5268) @@
    (3704 :> 5273) @@ (3780 :> 5361) @@ (3800 :> 5384) @@ (3856 :> 5447) @@ (3900 :> 5497) @@
    (3932 :> 5532) @@ (4000 :> 5607) @@ (4008 :> 5615) @@ (4070 :> 5682) @@ (4084 :> 5697) @@
    (4100 :> 5714) @@ (4160 :> 5777) @@ (4200 :> 5819) @@ (4236 :> 5856) @@ (4300 :> 5921) @@
    (4312 :> 5933) @@ (4388 :> 6009) @@ (4400 :> 6021) @@ (4464 :> 6083) @@ (4500 :> 6118) @@
    (4540 :> 6157) @@ (4600 :> 6214) @@ (4616 :> 6229) @@ (4692 :> 6300) @@ (4700 :> 6307) @@
    (4768 :> 6369) @@ (4800 :> 6398) @@ (4844 :> 6438) @@ (4900 :> 6488) @@ (4920 :> 6506) @@
    (4996 :> 6572) @@ (5000 :> 6576) @@ (5072 :> 6638) @@ (5100 :> 6662) @@ (5148 :> 6702) @@
    (5200 :> 6746) @@ (5224 :> 6766) @@ (5300 :> 6829) @@ (5376 :> 6891) @@ (5400 :> 6910) @@
    (5452 :> 6952) @@ (5500 :> 6990) @@ (5528 :> 7012) @@ (5600 :> 7068) @@ (5604 :> 7071) @@
    (5680 :> 7130) @@ (5700 :> 7145) @@ (5756 :> 7187) @@ (5800 :> 7220) @@ (5832 :> 7244) @@
    (5900 :> 7295) @@ (5908 :> 7300) @@ (5984 :> 7356) @@ (6000 :> 7368) @@ (6060 :> 7411) @@
    (6100 :> 7439) @@ (6136 :> 7465) @@ (6183 :> 7498) @@ (6200 :> 7510) @@ (6212 :> 7518) @@
    (6288 :> 7571) @@ (6300 :> 7579) @@ (6364 :> 7623) @@ (6400 :> 7648) @@ (6440 :> 7675) @@
    (6500 :> 7715) @@ (6516 :> 7726) @@ (6592 :> 7776) @@ (6600 :> 7782) @@ (6668 :> 7826) @@
    (6700 :> 7847) @@ (6744 :> 7875) @@ (6800 :> 7911) @@ (6820 :> 7924) @@ (6896 :> 7972) @@
    (6900 :> 7975) @@ (6972 :> 8020) @@ (7000 :> 8037) @@ (7048 :> 8067) @@ (7100 :> 8099) @@
    (7124 :> 8113) @@ (7200 :> 8159) @@ (7276 :> 8205) @@ (7300 :> 8219) @@ (7352 :> 8250) @@
    (7400 :> 8278) @@ (7428 :> 8295) @@ (7500 :> 8337) @@ (7504 :> 8339) @@ (7580 :> 8383) @@
    (7600 :> 8394) @@ (7656 :> 8426) @@ (7700 :> 8451) @@ (7732 :> 8469) @@ (7800 :> 8507) @@
    (7808 :> 8511) @@ (7884 :> 8554) @@ (7900 :> 8562) @@ (7960 :> 8595) @@ (8000 :> 8617) @@
    (8036 :> 8636) @@ (8100 :> 8671) @@ (8112 :> 8677) @@ (8188 :> 8718) @@ (8200 :> 8724) @@
    (8264 :> 8758) @@ (8300 :> 8777) @@ (8340 :> 8798) @@ (8400 :> 8829) @@ (8416 :> 8837) @@
    (8492 :> 8876) @@ (8500 :> 8880) @@ (8568 :> 8915) @@ (8600 :> 8931) @@ (8644 :> 8953) @@
    (8700 :> 8981) @@ (8720 :> 8991) @@ (8796 :> 9029) @@ (8800 :> 9031) @@ (8872 :> 9066) @@
    (8900 :> 9080) @@ (8948 :> 9103) @@ (9000 :> 9128) @@ (9024 :> 9140) @@ (9100 :> 9176) @@
    (9176 :> 9213) @@ (9200 :> 9224) @@ (9252 :> 9248) @@ (9300 :> 9271) @@ (9328 :> 9284) @@
    (9400 :> 9317) @@ (9404 :> 9319) @@ (9480 :> 9354) @@ (9500 :> 9363) @@ (9556 :> 9389) @@
    (9600 :> 9409) @@ (9632 :> 9423) @@ (9700 :> 9454) @@ (9708 :> 9457) @@ (9784 :> 9491) @@
    (9800 :> 9498) @@ (9860 :> 9525) @@ (9900 :> 9542) @@ (9936 :> 9558) @@ (10000 :> 9586) @@
    (10012 :> 9591) @@ (10088 :> 9624) @@ (10100 :> 9629) @@ (10164 :> 9657) @@
    (10200 :> 9672) @@ (10240 :> 9689) @@ (10300 :> 9714) @@ (10316 :> 9721) @@
    (10392 :> 9753) @@ (10400 :> 9756) @@ (10468 :> 9785) @@ (10500 :> 9798) @@
    (10544 :> 9816) @@ (10600 :> 9839) @@ (10620 :> 9847) @@ (10696 :> 9878) @@
    (10700 :> 9880) @@ (10772 :> 9909) @@ (10800 :> 9920) @@ (10848 :> 9940) @@
    (10900 :> 9960) @@ (10924 :> 9970) @@ (11000 :> 10000)

\* np.log10 of one distance: the tabulated value, or the one of the nearest
\* tabulated distance below it (the smallest one for a distance below all).
Log10(d) ==
    IF d \in DOMAIN Log10Table THEN Log10Table[d]
    ELSE LET below == {a \in DOMAIN Log10Table : a <= d}
             knot  == IF below = {}
                      THEN CHOOSE a \in DOMAIN Log10Table :
                               \A b \in DOMAIN Log10Table : a <= b
                      ELSE CHOOSE a \in below : \A b \in below : b <= a
         IN  Log10Table[knot]

\* np.log10 of an array, elementwise; the shape is kept.
log10(a) == NdArray(a.shape, [i \in DOMAIN a.data |-> Log10(a.data[i])])

Abs(n) == IF n < 0 THEN -n ELSE n

\* 10**x: the tabulated distance whose log10 is nearest x.
Pow10(x) ==
    CHOOSE d \in DOMAIN Log10Table :
        \A e \in DOMAIN Log10Table :
            \/ Abs(Log10Table[d] - x) < Abs(Log10Table[e] - x)
            \/ Abs(Log10Table[d] - x) = Abs(Log10Table[e] - x) /\ d <= e
(***************************************************************************)
(* total_heliocentric_mag                                                  *)
(***************************************************************************)
OORT_GROUPS == <<"new", "int", "old">>

\* Mutant: the far slope of the new group is mistyped (12.487 for 12.847).
BRIGHTENING_PARSTypo ==
    [new |-> [inbound  |-> [k_near |-> 26914, k_far |-> 49948, m1 |-> 33120],
              outbound |-> [k1 |-> 46160, m1 |-> 35000]],
     int |-> [inbound  |-> [k_near |-> 31343, k_far |-> 50096, m1 |-> 35840],
              outbound |-> [k1 |-> 50640, m1 |-> 38840]],
     old |-> [inbound  |-> [k_near |-> 53611, k_far |-> 58528, m1 |-> 46320],
              outbound |-> [k1 |-> 52840, m1 |-> 46280]]]

\* The table, in 1/4000 mag: k_near 6.7285 = 26914, m1 8.28 = 33120, ...
BRIGHTENING_PARS ==
    [new |-> [inbound  |-> [k_near |-> 26914, k_far |-> 51388, m1 |-> 33120],
              outbound |-> [k1 |-> 46160, m1 |-> 35000]],
     int |-> [inbound  |-> [k_near |-> 31343, k_far |-> 50096, m1 |-> 35840],
              outbound |-> [k1 |-> 50640, m1 |-> 38840]],
     old |-> [inbound  |-> [k_near |-> 53611, k_far |-> 58528, m1 |-> 46320],
              outbound |-> [k1 |-> 52840, m1 |-> 46280]]]

\* distance at which slope changes: 3.16 au
TRANSITION_R == 3476

transition_log_r == Log10(TRANSITION_R)

InSeq(x, s) == \E i \in 1..Len(s) : s[i] = x

\* A table magnitude (1/4000 mag) in the unit of returned magnitudes.
Fine(m) == m * 10000

\* if len(argv) == 4: the three arguments are replaced by the command line.
\* Mutant: the command line is read as distance, group, arc.
CliOverrideSwapped(distance, orbital_arc, oort_group, argv_) ==
    IF Len(argv_) = 4
    THEN LET f == Float(argv_[2])
         IN  IF f.kind = "raise" THEN f
             ELSE Return([distance |-> f.value, orbital_arc |-> argv_[4],
                          oort_group |-> argv_[3]])
    ELSE Return([distance |-> asarray(distance), orbital_arc |-> orbital_arc,
                 oort_group |-> oort_group])

\* The function's three locals after the command-line block: float(argv[1])
\* may raise; otherwise Return of the record of locals.
CliOverride(distance, orbital_arc, oort_group, argv_) ==
    IF Len(argv_) = 4
    THEN LET f == Float(argv_[2])
         IN  IF f.kind = "raise" THEN f
             ELSE Return([distance |-> f.value, orbital_arc |-> argv_[3],
                          oort_group |-> argv_[4]])
    ELSE Return([distance |-> asarray(distance), orbital_arc |-> orbital_arc,
                 oort_group |-> oort_group])

\* Mutant: the branch test is made once, on the first element.
maskFirstOnly(log_r) ==
    [i \in DOMAIN log_r.data |-> log_r.data[1] < transition_log_r]

\* mask = log_r < transition_log_r, elementwise.
mask(log_r) ==
    [i \in DOMAIN log_r.data |-> log_r.data[i] < transition_log_r]

\* Mutant: the slope difference is taken the other way round.
m_farFlipped(oort_group) ==
    LET p == BRIGHTENING_PARS[oort_group].inbound
    IN  Fine(p.m1) + transition_log_r * (p.k_far - p.k_near)

\* m_far = m_near + transition_log_r * (k_near - k_far)
m_far(oort_group) ==
    LET p == BRIGHTENING_PARS[oort_group].inbound
    IN  Fine(p.m1) + transition_log_r * (p.k_near - p.k_far)

\* np.where(mask, a, b), elementwise.
where(m, a, b) == [i \in DOMAIN m |-> IF m[i] THEN a[i] ELSE b[i]]

\* The inbound branch: total_mag for log_r.
InboundMag(log_r, oort_group) ==
    LET p    == BRIGHTENING_PARS[oort_group].inbound
        near == [i \in DOMAIN log_r.data |-> Fine(p.m1) + p.k_near * log_r.data[i]]
        far  == [i \in DOMAIN log_r.data |->
                    m_far(oort_group) + p.k_far * log_r.data[i]]
    IN  NdArray(log_r.shape, where(mask(log_r), near, far))

\* Mutant: the outbound curve is anchored at the pre-perihelion m1.
OutboundMagInboundM1(log_r, oort_group) ==
    LET k == BRIGHTENING_PARS[oort_group].outbound.k1
        m == BRIGHTENING_PARS[oort_group].inbound.m1
    IN  NdArray(log_r.shape, [i \in DOMAIN log_r.data |-> Fine(m) + k * log_r.data[i]])

\* The outbound branch: total_mag = m + k * log_r.
OutboundMag(log_r, oort_group) ==
    LET k == BRIGHTENING_PARS[oort_group].outbound.k1
        m == BRIGHTENING_PARS[oort_group].outbound.m1
    IN  NdArray(log_r.shape, [i \in DOMAIN log_r.data |-> Fine(m) + k * log_r.data[i]])

\* The one element of a singleton set.  Written The({e(v) : v \in {expr}}), it
\* names the value of expr as v in e, so that expr is computed once.
The(S) == CHOOSE v \in S : TRUE

\* The function from its validation on, for the locals it then holds.
Compute(distance, orbital_arc, oort_group) ==
    IF ~InSeq(oort_group, OORT_GROUPS)
    THEN Raise("ValueError", "Invalid oort group: " \o oort_group)
    ELSE IF orbital_arc \notin {"inbound", "outbound"}
    THEN Raise("ValueError", "Invalid arc: " \o orbital_arc)
    ELSE The({ IF orbital_arc = "inbound"
               THEN Return(InboundMag(log_r, oort_group))
               ELSE Return(OutboundMag(log_r, oort_group))
               : log_r \in {log10(asarray(distance))} })

\* total_heliocentric_mag(distance, orbital_arc, oort_group), run in a process
\* whose sys.argv is argv_.
total_heliocentric_mag(distance, orbital_arc, oort_group, argv_) ==
    The({ IF loc.kind = "raise" THEN loc
          ELSE Compute(loc.value.distance, loc.value.orbital_arc, loc.value.oort_group)
          : loc \in {CliOverride(distance, orbital_arc, oort_group, argv_)} })

\* One call as the caller sees it: what was passed and what came back.
CallRecord(distance, orbital_arc, oort_group, argv_) ==
    [distance |-> distance, orbital_arc |-> orbital_arc, oort_group |-> oort_group,
     outcome |-> total_heliocentric_mag(distance, orbital_arc, oort_group, argv_)]

(***************************************************************************)
(* main() of total_heliocentric_mag.py                                     *)
(***************************************************************************)
Line(text) == [text |-> text, value |-> NoValue]
OutputLine(v) == [text |-> "output: ", value |-> v]

\* print("output: ", total_heliocentric_mag(...)): the call is evaluated first;
\* if it raises, the exception leaves main() and nothing more is printed.
PrintExample(st0, source, distance, orbital_arc, oort_group, argv_) ==
    The({ IF st.exc.kind = "raise" THEN st
          ELSE [out   |-> IF c.outcome.kind = "raise"
                          THEN Append(st.out, Line(source))
                          ELSE st.out \o <<Line(source), OutputLine(c.outcome.value)>>,
                calls |-> Append(st.calls, c),
                exc   |-> c.outcome]
          : st \in {st0}, c \in {CallRecord(distance, orbital_arc, oort_group, argv_)} })

MainHeader ==
    << Line(""),
       Line("What the function total_heliocentric_mag does:"),
       Line("-----------------------------------------------"),
       Line("Calculates total heliocentric magnitude as a function of heliocentric distance, ..."),
       Line("Usage:"),
       Line("------"),
       Line("total_heliocentric_mag(distance, orbital_arc, oort_group)"),
       Line("Examples:"),
       Line("---------") >>

Example1(st, argv_) ==
    PrintExample(st, ">>> print(total_heliocentric_mag(5.0, inbound, new))",
                 PyFloat(5500), "inbound", "new", argv_)
Example2(st, argv_) ==
    PrintExample(st, ">>> print(total_heliocentric_mag([1.0, 3.0, 10.0], inbound, new))",
                 PyList(<<1100, 3300, 11000>>), "inbound", "new", argv_)
Example3(st, argv_) ==
    PrintExample(st, ">>> print(total_heliocentric_mag([2.3, 3.7], outbound, old))",
                 PyList(<<2530, 4070>>), "outbound", "old", argv_)

\* main(): the header, then the three examples in order.
MainRun(argv_) ==
    Example3(Example2(Example1(
        [out |-> MainHeader, calls |-> <<>>, exc |-> Return(NoValue)],
        argv_), argv_), argv_)

\* python total_heliocentric_mag.py ...: the module runs main().
main ==
    /\ pc = "start"
    /\ argv[1] = "total_heliocentric_mag.py"
    /\ \E s \in {MainRun(argv)} :
           /\ stdout' = s.out
           /\ calls' = s.calls
           /\ pc' = IF s.exc.kind = "raise" THEN "raised" ELSE "done"
    /\ UNCHANGED <<argv, fig>>

(***************************************************************************)
(* plot_heliocentric_lightcurves                                           *)
(***************************************************************************)
OORT_LINESTYLES ==
    [new |-> [linestyle |-> "-", color |-> "#0C7BDC"],
     int |-> [linestyle |-> "(0, (7, 1.5))", color |-> "#FFC20A"],
     old |-> [linestyle |-> "(0, (3, 1.5))", color |-> "#FF5733"]]

\* Mutant: the far slopes carry a mistyped entry for the new group (12.947).
oort_gr_inbound_kr_farTypo == <<51788, 50096, 58528>>

oort_gr_inbound_kr_near == <<26914, 31343, 53611>>
oort_gr_inbound_kr_far == <<51388, 50096, 58528>>
oort_gr_outbound_k1 == <<46160, 50640, 52840>>
oort_groups == <<"new", "int", "old">>
oort_labels == [i \in 1..Len(oort_groups) |-> OORT_GROUPS[i]]
oort_linestyles == [i \in 1..Len(oort_groups) |-> OORT_LINESTYLES[oort_groups[i]]]

\* Mutant: num samples of the same step, the stop value left out
\* (np.arange-like: the last sample is one step short of stop).
linspaceNoEndpoint(start, stop, num) ==
    NdArray(<<num - 1>>,
            [i \in 1..(num - 1) |-> start + ((i - 1) * (stop - start)) \div (num - 1)])

\* np.linspace(start, stop, num): num samples, both ends included.
linspace(start, stop, num) ==
    NdArray(<<num>>,
            [i \in 1..num |-> start + ((i - 1) * (stop - start)) \div (num - 1)])

r == linspace(1100, 11000, 100)
x == log10(r)
r_near == linspace(3476, 1100, 100)
r_far == linspace(11000, 3476, 100)
x_near == log10(r_near)
x_far == log10(r_far)

\* The midpoints of the segments in log10(r); halves of the log unit are
\* dropped.
x_ins_mid == (x_near.data[1] + x_near.data[Len(x_near.data)]) \div 2
x_out_mid == (x_far.data[1] + x_far.data[Len(x_far.data)]) \div 2
x_all_dist_mid == (x.data[1] + x.data[Len(x.data)]) \div 2

RECURSIVE IntStr(_)
IntStr(n) ==
    LET digit == CHOOSE c \in DOMAIN DigitVal : DigitVal[c] = n % 10
    IN  IF n < 10 THEN digit ELSE IntStr(n \div 10) \o digit

\* r"$%.1f$" % k for a slope k in 1/4000 mag: one decimal, rounded.
FormatSlope(k) ==
    LET tenths == (k + 200) \div 400
    IN  "$" \o IntStr(tenths \div 10) \o "." \o IntStr(tenths % 10) \o "$"

\* plt.subplots(1, 2, sharey=True): two empty panels.
EmptyFig == [curves |-> <<>>, annotations |-> <<>>, ylim |-> <<>>,
             xlim |-> [inbound |-> <<>>, outbound |-> <<>>],
             title |-> [inbound |-> "", outbound |-> ""],
             xticks |-> [inbound |-> <<>>, outbound |-> <<>>], legend |-> ""]

\* ax.plot(x, total_heliocentric_mag(r, arc, og), ...): the call may raise, and
\* Axes.plot raises ValueError unless x and y have the same first dimension.
PlotCurve(st0, ax, i, argv_) ==
    The({ IF st.exc.kind = "raise" THEN st
          ELSE IF c.outcome.kind = "raise"
          THEN [fig |-> st.fig, calls |-> Append(st.calls, c), exc |-> c.outcome]
          ELSE IF c.outcome.value.shape # x.shape
          THEN [fig |-> st.fig, calls |-> Append(st.calls, c),
                exc |-> Raise("ValueError", "x and y must have same first dimension")]
          ELSE [fig |-> [st.fig EXCEPT !.curves =
                           Append(@, [ax |-> ax, x |-> x, y |-> c.outcome.value,
                                      style |-> oort_linestyles[i],
                                      label |-> oort_labels[i]])],
                calls |-> Append(st.calls, c), exc |-> st.exc]
          : st \in {st0}, c \in {CallRecord(r, ax, oort_groups[i], argv_)} })

\* ax.annotate(r"$%.1f$" % k, (x_mid, total_heliocentric_mag(10**x_mid, arc, og)))
Annotate(st0, ax, k, x_mid, i, argv_) ==
    The({ IF st.exc.kind = "raise" THEN st
          ELSE IF c.outcome.kind = "raise"
          THEN [fig |-> st.fig, calls |-> Append(st.calls, c), exc |-> c.outcome]
          ELSE [fig |-> [st.fig EXCEPT !.annotations =
                           Append(@, [ax |-> ax, text |-> FormatSlope(k),
                                      xy |-> <<x_mid, c.outcome.value>>])],
                calls |-> Append(st.calls, c), exc |-> st.exc]
          : st \in {st0},
            c \in {CallRecord(PyFloat(Pow10(x_mid)), ax, oort_groups[i], argv_)} })

\* One pass of the loop over the Oort groups.
PlotInbound(st, i, argv_) == PlotCurve(st, "inbound", i, argv_)
PlotOutbound(st, i, argv_) == PlotCurve(st, "outbound", i, argv_)
AnnotateNear(st, i, argv_) ==
    Annotate(st, "inbound", oort_gr_inbound_kr_near[i], x_ins_mid, i, argv_)
AnnotateFar(st, i, argv_) ==
    Annotate(st, "inbound", oort_gr_inbound_kr_far[i], x_out_mid, i, argv_)
AnnotateOutbound(st, i, argv_) ==
    Annotate(st, "outbound", oort_gr_outbound_k1[i], x_all_dist_mid, i, argv_)

\* One pass of the loop over the Oort groups: two curves, three annotations.
PlotGroup(st, i, argv_) ==
    AnnotateOutbound(AnnotateFar(AnnotateNear(PlotOutbound(PlotInbound(
        st, i, argv_), i, argv_), i, argv_), i, argv_), i, argv_)

\* The axis settings and the legend after the loop: y from 25 down to 7.5 mag
\* (in 1/10 mag), x over log10(r) from 0 to 1, reversed on the inbound panel,
\* ticks at log10 of 1, 2, 3, 5, 10 au.
Decorate(st0) ==
    The({ IF st.exc.kind = "raise" THEN st
          ELSE [st EXCEPT
                  !.fig.ylim = <<250, 75>>,
                  !.fig.xlim = [inbound |-> <<Log10(11000), Log10(1100)>>,
                                outbound |-> <<Log10(1100), Log10(11000)>>],
                  !.fig.title = [inbound |-> "Pre-Perihelion",
                                 outbound |-> "Post-Perihelion"],
                  !.fig.xticks =
                      [inbound |-> <<Log10(1100), Log10(2200), Log10(3300),
                                     Log10(5500), Log10(11000)>>,
                       outbound |-> <<Log10(2200), Log10(3300), Log10(5500),
                                      Log10(11000)>>],
                  !.fig.legend = "Oort Group"]
          : st \in {st0} })

PlotRun(argv_) ==
    LET s0 == [fig |-> EmptyFig, calls |-> <<>>, exc |-> Return(NoValue)]
    IN  Decorate(PlotGroup(PlotGroup(PlotGroup(s0, 1, argv_), 2, argv_), 3, argv_))

\* python plot_brightening_curves.py ...: main() draws the figure and shows it.
plot_heliocentric_lightcurves ==
    /\ pc = "start"
    /\ argv[1] = "plot_brightening_curves.py"
    /\ \E s \in {PlotRun(argv)} :
           /\ fig' = s.fig
           /\ calls' = s.calls
           /\ pc' = IF s.exc.kind = "raise" THEN "raised" ELSE "done"
    /\ UNCHANGED <<argv, stdout>>

(***************************************************************************)
(* A program that imports the module and calls the function                *)
(***************************************************************************)
\* Distances a client passes: 3, 3.16 and 5 au (inside, at and beyond the transition).
ClientDists == {3300, TRANSITION_R, 5500}
ClientDistances ==
    {PyFloat(d) : d \in ClientDists}
    \cup {PyList(s) : s \in UNION {[1..n -> ClientDists] : n \in 0..MaxLen}}
ClientArcs == {"inbound", "outbound", "sideways"}
ClientGroups == {"new", "int", "old", "ancient"}

Call(distance, orbital_arc, oort_group) ==
    /\ argv[1] = "client.py"
    /\ pc \in {"start", "called"}
    /\ \E c \in {CallRecord(distance, orbital_arc, oort_group, argv)} : calls' = <<c>>
    /\ pc' = "called"
    /\ UNCHANGED <<argv, stdout, fig>>

(***************************************************************************)
(* Processes                                                               *)
(***************************************************************************)
Scripts == {"total_heliocentric_mag.py", "plot_brightening_curves.py", "client.py"}

\* Command lines after the script name.
CommandLines ==
    { <<>>,
      <<"5.0", "inbound">>,
      <<"5.0", "inbound", "new">>,
      <<"3.16", "inbound", "old">>,
      <<"2.3", "outbound", "int">>,
      <<"abc", "inbound", "new">>,
      <<"5.0", "sideways", "new">>,
      <<"5.0", "inbound", "ancient">>,
      <<"5.0", "inbound", "new", "-v">> }

Argvs == {<<s>> \o c : s \in Scripts, c \in CommandLines}

Init ==
    /\ argv \in Argvs
    /\ pc = "start"
    /\ calls = <<>>
    /\ stdout = <<>>
    /\ fig = EmptyFig

Next ==
    \/ main
    \/ plot_heliocentric_lightcurves
    \/ \E d \in ClientDistances, a \in ClientArcs, g \in ClientGroups : Call(d, a, g)

Spec == Init /\ [][Next]_vars

TypeOK ==
    /\ argv \in Argvs
    /\ pc \in {"start", "called", "done", "raised"}

(***************************************************************************)
(* Properties                                                              *)
(***************************************************************************)
\* The calls of the last operation, by position.
Made == 1..Len(calls)

\* The distance, arc and group the function works with in call i (after its
\* command-line block), as a Return, or the Raise of float().
Locals(i) ==
    CliOverride(calls[i].distance, calls[i].orbital_arc, calls[i].oort_group, argv)

ValidGroups == {"new", "int", "old"}

\* Call i evaluates arc `arc` for one of the three groups.
Evaluates(i, arc) ==
    /\ Locals(i).kind = "return"
    /\ Locals(i).value.orbital_arc = arc
    /\ Locals(i).value.oort_group \in ValidGroups

\* The near-branch and far-branch formulas of the specification for group g at
\* log-distance lr, written out from the table.
NearFormula(g, lr) ==
    Fine(BRIGHTENING_PARS[g].inbound.m1) + BRIGHTENING_PARS[g].inbound.k_near * lr
FarFormula(g, lr) ==
    (Fine(BRIGHTENING_PARS[g].inbound.m1)
       + Log10(TRANSITION_R)
         * (BRIGHTENING_PARS[g].inbound.k_near - BRIGHTENING_PARS[g].inbound.k_far))
    + BRIGHTENING_PARS[g].inbound.k_far * lr
OutboundFormula(g, lr) ==
    Fine(BRIGHTENING_PARS[g].outbound.m1) + BRIGHTENING_PARS[g].outbound.k1 * lr

\* C1: continuity.  Whenever an inbound evaluation for a valid group has an
\* element at exactly the transition distance (log_r = log10(3.16)), the value
\* returned for it, which the code takes from the far branch with its derived
\* m_far, equals the near-branch value m_near + k_near * transition_log_r.
ContinuityAtTransition ==
    \A i \in Made :
        Evaluates(i, "inbound") =>
            LET d == Locals(i).value.distance.data
                g == Locals(i).value.oort_group
                v == calls[i].outcome.value.data
            IN  /\ calls[i].outcome.kind = "return"
                /\ \A j \in 1..Len(d) :
                       Log10(d[j]) = Log10(TRANSITION_R) =>
                           /\ v[j] = m_far(g)
                                     + BRIGHTENING_PARS[g].inbound.k_far * Log10(d[j])
                           /\ v[j] = NearFormula(g, Log10(TRANSITION_R))

\* Witness of C1: an inbound evaluation at exactly 3.16 au has returned.
ContinuityWitness ==
    \E i \in Made :
        /\ Evaluates(i, "inbound")
        /\ calls[i].outcome.kind = "return"
        /\ \E j \in 1..Len(Locals(i).value.distance.data) :
               Locals(i).value.distance.data[j] = TRANSITION_R

\* C2: branch selection per element.  An inbound evaluation for a valid group
\* returns one value per element; element j is the near-branch value when its
\* log_r is strictly below transition_log_r and the far-branch value otherwise
\* (so also at exactly 3.16 au), whatever the other elements are.
BranchPerElement ==
    \A i \in Made :
        Evaluates(i, "inbound") =>
            LET d == Locals(i).value.distance.data
                g == Locals(i).value.oort_group
                v == calls[i].outcome.value.data
            IN  /\ calls[i].outcome.kind = "return"
                /\ Len(v) = Len(d)
                /\ \A j \in 1..Len(d) :
                       v[j] = IF Log10(d[j]) < Log10(TRANSITION_R)
                              THEN NearFormula(g, Log10(d[j]))
                              ELSE FarFormula(g, Log10(d[j]))

\* Witness of C2: an inbound evaluation of a list whose first element lies
\* beyond the transition and whose second lies inside it has returned.
BranchPerElementWitness ==
    \E i \in Made :
        /\ Evaluates(i, "inbound")
        /\ calls[i].outcome.kind = "return"
        /\ Len(Locals(i).value.distance.data) >= 2
        /\ Locals(i).value.distance.data[1] > TRANSITION_R
        /\ Locals(i).value.distance.data[2] < TRANSITION_R

\* C3 (as claimed): every call whose group argument is not new, int or old
\* ends in the invalid-group error, and every call whose arc argument is not
\* inbound or outbound ends in an error (the invalid-arc one when the group is
\* valid); no such call returns a magnitude.
InvalidArgumentsAlwaysRaise ==
    \A i \in Made :
        /\ calls[i].oort_group \notin ValidGroups =>
               /\ calls[i].outcome.kind = "raise"
               /\ calls[i].outcome.msg = "Invalid oort group: " \o calls[i].oort_group
        /\ calls[i].orbital_arc \notin {"inbound", "outbound"} =>
               /\ calls[i].outcome.kind = "raise"
               /\ \/ calls[i].oort_group \notin ValidGroups
                  \/ calls[i].outcome.msg = "Invalid arc: " \o calls[i].orbital_arc

\* C4 (as claimed): the outcome of a call is a function of its three arguments
\* alone: the same call made under any other command line gives the same
\* outcome.
OutcomeIndependentOfArgv ==
    \A i \in Made :
        \A a \in Argvs :
            total_heliocentric_mag(calls[i].distance, calls[i].orbital_arc,
                                   calls[i].oort_group, a) = calls[i].outcome

\* C5 (as claimed): a returned result has the shape of the distance argument,
\* and its j-th element is the magnitude of the j-th distance passed.
ShapeMirrorsArgument ==
    \A i \in Made :
        calls[i].outcome.kind = "return" =>
            /\ calls[i].outcome.value.shape = calls[i].distance.shape
            /\ \A j \in 1..Len(calls[i].distance.data) :
                   LET one == Compute(PyFloat(calls[i].distance.data[j]),
                                      calls[i].orbital_arc, calls[i].oort_group)
                   IN  /\ one.kind = "return"
                       /\ calls[i].outcome.value.data[j] = one.value.data[1]

\* C6: an outbound evaluation for a valid group returns, for every element,
\* m1_outbound + k1 * log10(distance) with that group's outbound constants, on
\* both sides of the transition distance.
OutboundAffine ==
    \A i \in Made :
        Evaluates(i, "outbound") =>
            LET d == Locals(i).value.distance.data
                g == Locals(i).value.oort_group
                v == calls[i].outcome.value.data
            IN  /\ calls[i].outcome.kind = "return"
                /\ Len(v) = Len(d)
                /\ \A j \in 1..Len(d) : v[j] = OutboundFormula(g, Log10(d[j]))

\* Witness of C6: an outbound evaluation of a list with one element inside and
\* one beyond the transition distance has returned.
OutboundAffineWitness ==
    \E i \in Made :
        /\ Evaluates(i, "outbound")
        /\ calls[i].outcome.kind = "return"
        /\ \E j, k \in 1..Len(Locals(i).value.distance.data) :
               /\ Locals(i).value.distance.data[j] < TRANSITION_R
               /\ Locals(i).value.distance.data[k] > TRANSITION_R

\* The values main() has printed on its "output: " lines.
Printed ==
    LET lines == SelectSeq(stdout, LAMBDA l : l.text = "output: ")
    IN  [n \in 1..Len(lines) |-> lines[n].value]

\* C7: the command-line mode.  Run as a program with exactly three arguments,
\* total_heliocentric_mag.py prints, on each of its output lines, the
\* magnitude of (float(argv[1]), argv[2], argv[3]), and ends in the error of
\* that triple (printing no magnitude) if it has one.  With any other number
\* of arguments every call, of any program, evaluates the arguments passed to
\* it, and the program prints the magnitudes of its three examples.
CommandLineTriple ==
    /\ (argv[1] = "total_heliocentric_mag.py" /\ pc # "start") =>
           IF Len(argv) = 4
           THEN IF Float(argv[2]).kind = "raise"
                THEN pc = "raised" /\ Printed = <<>>
                ELSE LET e == Compute(Float(argv[2]).value, argv[3], argv[4])
                     IN  IF e.kind = "raise"
                         THEN pc = "raised" /\ Printed = <<>>
                         ELSE pc = "done" /\ Printed = <<e.value, e.value, e.value>>
           ELSE /\ pc = "done"
                /\ Len(calls) = 3
                /\ Printed = [n \in 1..3 |-> calls[n].outcome.value]
    /\ Len(argv) # 4 =>
           \A i \in Made :
               calls[i].outcome = Compute(asarray(calls[i].distance),
                                          calls[i].orbital_arc, calls[i].oort_group)

\* Witness of C7: the program was run as `5.0 inbound new` and has printed the
\* magnitude of 5 au, inbound, new.
CommandLineTripleWitness ==
    /\ argv = <<"total_heliocentric_mag.py", "5.0", "inbound", "new">>
    /\ pc = "done"
    /\ Len(Printed) = 3
    /\ Printed[1].data = <<FarFormula("new", Log10(5500))>>

\* Call i evaluates 5.0 au, inbound, new.
EvaluatesFiveAuInboundNew(i) ==
    /\ Evaluates(i, "inbound")
    /\ Locals(i).value.oort_group = "new"
    /\ Locals(i).value.distance.shape = <<>>
    /\ Locals(i).value.distance.data = <<5500>>

\* The far-branch value of the claim: k_far = 12.847 (51388),
\* m_far = 8.28 + log10(3.16) * (6.7285 - 12.847), log10(3.16) = 0.4997,
\* log10(5) = 0.6990.
FarBranchAtFiveAu == (33120 * 10000 + 4997 * (26914 - 51388)) + 51388 * 6990

\* C8 (as amended): the evaluation of 5.0 au, inbound, new returns the
\* far-branch value, and that value is 14.20 to two decimals.
FiveAuIsFarBranchNear14_20 ==
    \A i \in Made :
        EvaluatesFiveAuInboundNew(i) =>
            /\ calls[i].outcome.kind = "return"
            /\ calls[i].outcome.value.data = <<FarBranchAtFiveAu>>
            /\ Abs(calls[i].outcome.value.data[1] - 568000000) <= 200000

\* C8 (as claimed): ... and that value is 7.39 to two decimals.
FiveAuIsFarBranchNear7_39 ==
    \A i \in Made :
        EvaluatesFiveAuInboundNew(i) =>
            /\ calls[i].outcome.kind = "return"
            /\ calls[i].outcome.value.data = <<FarBranchAtFiveAu>>
            /\ Abs(calls[i].outcome.value.data[1] - 295600000) <= 200000

\* Witness of C8: main() has evaluated its first example, 5.0 au inbound new,
\* as written.
FiveAuWitness ==
    /\ argv[1] = "total_heliocentric_mag.py"
    /\ Len(argv) # 4
    /\ pc = "done"
    /\ EvaluatesFiveAuInboundNew(1)

\* The calls in which the plotter passes its full-range grid.
GridCalls ==
    {i \in Made : argv[1] = "plot_brightening_curves.py"
                  /\ calls[i].distance.type = "ndarray"}

\* C9 (as amended): the grid the plotter evaluates the model on has 100
\* distances from 1 au to 10 au with a constant difference between
\* consecutive distances.
GridIsLinear ==
    \A i \in GridCalls :
        LET g == calls[i].distance.data
        IN  /\ Len(g) = 100
            /\ g[1] = 1100
            /\ g[100] = 11000
            /\ \A j \in 1..98 : g[j + 1] - g[j] = g[j + 2] - g[j + 1]
            /\ g[2] > g[1]

\* C9 (as claimed): ... with a constant ratio between consecutive distances
\* (g[j+1] / g[j] = g[j+2] / g[j+1], cross-multiplied).
GridIsLogUniform ==
    \A i \in GridCalls :
        LET g == calls[i].distance.data
        IN  /\ Len(g) = 100
            /\ g[1] = 1100
            /\ g[100] = 11000
            /\ \A j \in 1..98 : g[j + 1] * g[j + 1] = g[j] * g[j + 2]

\* Witness of C9: the plotter has drawn all six curves on its grid.
GridWitness ==
    /\ argv[1] = "plot_brightening_curves.py"
    /\ pc = "done"
    /\ Len(fig.curves) = 6
    /\ Cardinality(GridCalls) = 6

\* C10: in the finished figure, for every Oort group, the three annotations
\* show the model's k_near, k_far and k1 of that group (as "%.1f" prints
\* them); each sits at the midpoint, in log10(distance), of its own segment
\* (1 to 3.16 au, 3.16 to 10 au, 1 to 10 au); and the model evaluated the
\* near annotation's point on the near branch and the far annotation's point
\* on the far branch.
AnnotationsMatchModel ==
    (argv[1] = "plot_brightening_curves.py" /\ pc = "done") =>
        /\ Len(fig.annotations) = 9
        /\ Len(calls) = 15
        /\ \A n \in 1..3 :
               LET g    == OORT_GROUPS[n]
                   near == fig.annotations[3 * (n - 1) + 1]
                   far  == fig.annotations[3 * (n - 1) + 2]
                   out  == fig.annotations[3 * (n - 1) + 3]
                   cn   == calls[5 * (n - 1) + 3]
                   cf   == calls[5 * (n - 1) + 4]
                   co   == calls[5 * (n - 1) + 5]
               IN  /\ near.ax = "inbound" /\ far.ax = "inbound" /\ out.ax = "outbound"
                   /\ cn.oort_group = g /\ cf.oort_group = g /\ co.oort_group = g
                   /\ near.text = FormatSlope(BRIGHTENING_PARS[g].inbound.k_near)
                   /\ far.text = FormatSlope(BRIGHTENING_PARS[g].inbound.k_far)
                   /\ out.text = FormatSlope(BRIGHTENING_PARS[g].outbound.k1)
                   /\ near.xy[1] = (Log10(1100) + Log10(TRANSITION_R)) \div 2
                   /\ far.xy[1] = (Log10(TRANSITION_R) + Log10(11000)) \div 2
                   /\ out.xy[1] = (Log10(1100) + Log10(11000)) \div 2
                   /\ Log10(cn.distance.data[1]) < Log10(TRANSITION_R)
                   /\ near.xy[2].data = <<NearFormula(g, Log10(cn.distance.data[1]))>>
                   /\ Log10(cf.distance.data[1]) > Log10(TRANSITION_R)
                   /\ far.xy[2].data = <<FarFormula(g, Log10(cf.distance.data[1]))>>
                   /\ out.xy[2].data = <<OutboundFormula(g, Log10(co.distance.data[1]))>>

\* Witness of C10: the plotter has finished a figure with all nine annotations.
AnnotationsWitness ==
    /\ argv[1] = "plot_brightening_curves.py"
    /\ pc = "done"
    /\ Len(fig.annotations) = 9
    /\ fig.annotations[2].text = "$12.8$"
====
